---- MODULE Spec2Model ----
(***************************************************************************)
(* Model of parse-pos (src/src/lib.rs): Position (extend, display) and the *)
(* wrappers Located<T> and PathLocated<T> (eq, hash, map, with_path).      *)
(*                                                                         *)
(* A string is a sequence of characters; a character is a one-element      *)
(* name.  "E" stands for a character whose UTF-8 encoding is two bytes     *)
(* long (such as U+00E9), "a" for an ASCII letter.                         *)
(***************************************************************************)
EXTENDS Integers, Sequences, FiniteSets, TLC

VARIABLES self, other, pre, arg, box, count,
          content, f, fPre, ret, pc,
          x, y, out

vars == <<self, other, pre, arg, box, count, content, f, fPre, ret, pc, x, y, out>>

extendVars == <<other, pre, arg, box, count>>
displayVars == <<content, f, fPre, ret, pc>>
locatedVars == <<x, y, out>>

(***************************************************************************)
(* Bounds                                                                  *)
(***************************************************************************)
\* longest source text given to display, in characters
MaxLen == 4
\* largest line index of a displayed Position (besides usize::MAX)
MaxLn == 2
\* largest column index of a displayed Position
MaxCol == 2
\* largest coordinate of the Positions given to extend
MaxCoord == 1
\* largest inner value of a wrapper
MaxVal == 1
\* largest coordinate of a wrapper's Position
MaxW == 1

\* usize is modelled UsizeBits wide
UsizeBits == 4
UsizeMax == 2 ^ UsizeBits - 1

Min(a, b) == IF a < b THEN a ELSE b
Max(a, b) == IF a > b THEN a ELSE b

(***************************************************************************)
(* Position                                                                *)
(***************************************************************************)
\* Position::new(ln, col), each range given by its start and end
PositionNew(ls, le, cs, ce) ==
    [ln |-> [start |-> ls, end |-> le], col |-> [start |-> cs, end |-> ce]]

\* Position::default(): the derived Default, 0..0 on both axes
PositionDefault == PositionNew(0, 0, 0, 0)

PositionsUpTo(n) ==
    {PositionNew(ls, le, cs, ce) : ls \in 0..n, le \in 0..n, cs \in 0..n, ce \in 0..n}

ExtendPositions == PositionsUpTo(MaxCoord)

\* a plausible slip: the end of the line range is lowered instead of raised
ExtendLnEndMin(a, b) ==
    LET s1 == IF a.ln.start > b.ln.start THEN [a EXCEPT !.ln.start = b.ln.start] ELSE a
        s2 == IF s1.ln.end > b.ln.end THEN [s1 EXCEPT !.ln.end = b.ln.end] ELSE s1
        s3 == IF s2.col.start > b.col.start THEN [s2 EXCEPT !.col.start = b.col.start] ELSE s2
        s4 == IF s3.col.end < b.col.end THEN [s3 EXCEPT !.col.end = b.col.end] ELSE s3
    IN  [self |-> s4, other |-> b]

\* a plausible slip: the column end is assigned without the comparison
ExtendColEndAssign(a, b) ==
    LET s1 == IF a.ln.start > b.ln.start THEN [a EXCEPT !.ln.start = b.ln.start] ELSE a
        s2 == IF s1.ln.end < b.ln.end THEN [s1 EXCEPT !.ln.end = b.ln.end] ELSE s1
        s3 == IF s2.col.start > b.col.start THEN [s2 EXCEPT !.col.start = b.col.start] ELSE s2
        s4 == [s3 EXCEPT !.col.end = b.col.end]
    IN  [self |-> s4, other |-> b]

\* Position::extend(&mut self, other: &Self): four conditional assignments
\* in sequence; the result holds self and other as they are after the call
PositionExtend(a, b) ==
    LET s1 == IF a.ln.start > b.ln.start THEN [a EXCEPT !.ln.start = b.ln.start] ELSE a
        s2 == IF s1.ln.end < b.ln.end THEN [s1 EXCEPT !.ln.end = b.ln.end] ELSE s1
        s3 == IF s2.col.start > b.col.start THEN [s2 EXCEPT !.col.start = b.col.start] ELSE s2
        s4 == IF s3.col.end < b.col.end THEN [s3 EXCEPT !.col.end = b.col.end] ELSE s3
    IN  [self |-> s4, other |-> b]

(***************************************************************************)
(* Strings                                                                 *)
(***************************************************************************)
LF == "\n"
CR == "\r"
Alphabet == {"a", "E", LF}

Strings(n) == UNION {[1..k -> Alphabet] : k \in 0..n}

\* length in bytes of the UTF-8 encoding of a character
Utf8Len(c) == IF c = "E" THEN 2 ELSE 1

RECURSIVE ByteLen(_)
\* str::len: the length of a string in bytes
ByteLen(s) == IF s = <<>> THEN 0 ELSE Utf8Len(Head(s)) + ByteLen(Tail(s))

\* str::char_indices: the byte offset of each character, in order
CharIndices(s) == [k \in 1..Len(s) |-> ByteLen(SubSeq(s, 1, k - 1))]

RECURSIVE Repeat(_, _)
\* str::repeat for a one-character string
Repeat(c, n) == IF n = 0 THEN <<>> ELSE <<c>> \o Repeat(c, n - 1)

RECURSIVE Digits(_)
\* the decimal digits of a usize, as Display prints them
Digits(n) ==
    LET d == SubSeq(<<"0", "1", "2", "3", "4", "5", "6", "7", "8", "9">>, (n % 10) + 1, (n % 10) + 1)
    IN  IF n < 10 THEN d ELSE Digits(n \div 10) \o d

\* the format width {:>w$}: pad on the left with spaces up to w characters
PadLeft(s, w) == IF Len(s) >= w THEN s ELSE Repeat(" ", w - Len(s)) \o s

RECURSIVE SplitInclusive(_)
\* str::split_inclusive('\n'): pieces that keep their terminator
SplitInclusive(s) ==
    IF s = <<>> THEN <<>>
    ELSE LET ks == {k \in 1..Len(s) : s[k] = LF}
         IN  IF ks = {} THEN <<s>>
             ELSE LET k == CHOOSE k \in ks : \A j \in ks : k <= j
                  IN  <<SubSeq(s, 1, k)>> \o SplitInclusive(SubSeq(s, k + 1, Len(s)))

\* one piece of str::lines: strip a final "\n", and then a final "\r" before it
StripLineEnding(piece) ==
    IF piece # <<>> /\ piece[Len(piece)] = LF
    THEN LET l == SubSeq(piece, 1, Len(piece) - 1)
         IN  IF l # <<>> /\ l[Len(l)] = CR THEN SubSeq(l, 1, Len(l) - 1) ELSE l
    ELSE piece

\* content.lines().collect::<Vec<&str>>()
Lines(s) == LET ps == SplitInclusive(s) IN [k \in 1..Len(ps) |-> StripLineEnding(ps[k])]

(***************************************************************************)
(* Slices                                                                  *)
(***************************************************************************)
None == [some |-> FALSE]
Some(v) == [some |-> TRUE, val |-> v]

\* <[T]>::get(start..end)
SliceGetRange(v, s, e) ==
    IF s > e \/ e > Len(v) THEN None ELSE Some(SubSeq(v, s + 1, e))

\* a plausible slip: the range taken as half-open, lines.get(start..end)
SliceGetExclusive(v, s, e) == SliceGetRange(v, s, e)

\* <[T]>::get(start..=end): None when end is usize::MAX, else get(start..end+1)
SliceGetInclusive(v, s, e) ==
    IF e = UsizeMax THEN None ELSE SliceGetRange(v, s, e + 1)

(***************************************************************************)
(* Position::display                                                       *)
(***************************************************************************)
tab == 4
Fallback == <<".", ".", ".", " ", "c", "o", "d", "e", " ", "s", "n", "i", "p", "p", "e", "t", " ",
              "u", "n", "a", "v", "a", "i", "l", "a", "b", "l", "e", " ", ".", ".", ".">>

\* writeln!(f, "... code snippet unavailable ...")
WriteFallback == Fallback \o <<LF>>

\* writeln!(f, "{:>tab$}| {line}", n)
WriteHeader(n, line) == PadLeft(Digits(n), tab) \o <<"|", " ">> \o line \o <<LF>>

\* writeln!(f, "{:>tab$}  {}", "", marks)
WriteUnderline(marks) == PadLeft(<<>>, tab) \o <<" ", " ">> \o marks \o <<LF>>

\* the marker row of a single selected line
MarksSingle(p, line) ==
    LET ci == CharIndices(line)
    IN  [k \in 1..Len(line) |-> IF p.col.start <= ci[k] /\ p.col.end > ci[k] THEN "~" ELSE " "]

\* the marker row of the first of several selected lines
MarksFirst(p, line) ==
    LET ci == CharIndices(line)
    IN  [k \in 1..Len(line) |-> IF p.col.start <= ci[k] THEN "~" ELSE " "]

\* the marker row of the last of several selected lines
MarksLast(p, line) ==
    LET ci == CharIndices(line)
    IN  [k \in 1..Len(line) |-> IF p.col.end > ci[k] THEN "~" ELSE " "]

\* the marker row of a line between the first and the last
MarksInterior(line) == Repeat("~", ByteLen(line))

\* a plausible slip: the absolute line number of the ln-th selected line
LineNoAbsolute(p, ln) == p.ln.start + ln + 1

\* the number shown for the ln-th selected line (ln from 0) of several
LineNoMulti(p, ln) == ln + 1

RECURSIVE DisplayMulti(_, _, _)
\* the loop over the selected lines, from the ln-th (ln from 0) on
DisplayMulti(p, lines, ln) ==
    IF ln >= Len(lines) THEN <<>>
    ELSE LET line == lines[ln + 1]
             last_ln == Len(lines) - 1
             marks == IF ln = 0 THEN MarksFirst(p, line)
                      ELSE IF ln = last_ln THEN MarksLast(p, line)
                      ELSE MarksInterior(line)
         IN  WriteHeader(LineNoMulti(p, ln), line) \o WriteUnderline(marks)
                 \o DisplayMulti(p, lines, ln + 1)

\* Position::display(&self, f, content): the text appended to f and the result
PositionDisplay(p, s) ==
    LET got == SliceGetInclusive(Lines(s), p.ln.start, p.ln.end)
    IN  IF ~got.some THEN [text |-> WriteFallback, ret |-> "Ok"]
        ELSE IF got.val = <<>> THEN [text |-> WriteFallback, ret |-> "Ok"]
        ELSE IF Len(got.val) = 1
             THEN [text |-> WriteHeader(p.ln.start + 1, got.val[1])
                               \o WriteUnderline(MarksSingle(p, got.val[1])),
                   ret |-> "Ok"]
             ELSE [text |-> DisplayMulti(p, got.val, 0), ret |-> "Ok"]

LnCoords == (0..MaxLn) \cup {UsizeMax}
DisplayPositions ==
    {PositionNew(ls, le, cs, ce) : ls \in LnCoords, le \in LnCoords, cs \in 0..MaxCol, ce \in 0..MaxCol}

\* the buffer handed to display: a new String, or one that already holds text
Buffers == {<<>>, <<"a", LF>>}

InitDisplay ==
    /\ content \in Strings(MaxLen)
    /\ f \in Buffers
    /\ fPre = f
    /\ ret = "none"
    /\ pc = "ready"
    /\ self = PositionDefault
    /\ other = PositionDefault /\ pre = PositionDefault /\ arg = PositionDefault
    /\ box = PositionDefault /\ count = 0
    /\ x = <<>> /\ y = <<>> /\ out = <<>>

\* Position::new(..).display(&mut f, content)
Display(p) ==
    /\ pc = "ready"
    /\ LET r == PositionDisplay(p, content)
       IN  /\ f' = f \o r.text
           /\ ret' = r.ret
    /\ fPre' = f
    /\ self' = p
    /\ pc' = "done"
    /\ UNCHANGED <<content, extendVars, locatedVars>>

NextDisplay == \E p \in DisplayPositions : Display(p)

SpecDisplay == InitDisplay /\ [][NextDisplay]_vars

(***************************************************************************)
(* Sequences of Position::extend                                           *)
(*                                                                         *)
(* pre and arg are self and the argument as they were when the last call   *)
(* was made; box is the least start and the greatest end, on each axis, of *)
(* the original self and of every argument so far; count is the number of  *)
(* calls, 2 standing for two or more.                                      *)
(***************************************************************************)
SetMin(S) == CHOOSE m \in S : \A k \in S : m <= k
SetMax(S) == CHOOSE m \in S : \A k \in S : m >= k

\* the bounding box of two spans
Cover(p, q) ==
    PositionNew(SetMin({p.ln.start, q.ln.start}), SetMax({p.ln.end, q.ln.end}),
                SetMin({p.col.start, q.col.start}), SetMax({p.col.end, q.col.end}))

InitExtend ==
    /\ self \in ExtendPositions
    /\ pre = self
    /\ arg = PositionDefault
    /\ other = PositionDefault
    /\ box = self
    /\ count = 0
    /\ content = <<>> /\ f = <<>> /\ fPre = <<>> /\ ret = "none" /\ pc = "ready"
    /\ x = <<>> /\ y = <<>> /\ out = <<>>

\* self.extend(&b)
Extend(b) ==
    /\ LET r == PositionExtend(self, b)
       IN  /\ self' = r.self
           /\ other' = r.other
    /\ pre' = self
    /\ arg' = b
    /\ box' = Cover(box, b)
    /\ count' = IF count = 0 THEN 1 ELSE 2
    /\ UNCHANGED <<displayVars, locatedVars>>

NextExtend == \E b \in ExtendPositions : Extend(b)

SpecExtend == InitExtend /\ [][NextExtend]_vars

(***************************************************************************)
(* Located<T> and PathLocated<T>, T an integer type                        *)
(***************************************************************************)
Values == 0..MaxVal
Paths == {"a.rs", "b.rs"}
\* the closures given to map: the identity, a constant, and one that sends
\* every value to another one when there are two or more
Fns == {[v \in Values |-> v], [v \in Values |-> 0], [v \in Values |-> (v + 1) % (MaxVal + 1)]}
WrapPositions == {PositionNew(l, l + 1, c, c + 1) : l \in 0..MaxW, c \in 0..MaxW}

\* Located::new(value, pos)
LocatedNew(v, p) == [value |-> v, pos |-> p]

\* <Located<T> as Default>::default(), T::default() being 0
LocatedDefault == LocatedNew(0, PositionDefault)

\* PathLocated::new(value, pos, path)
PathLocatedNew(v, p, path) == [value |-> v, pos |-> p, path |-> path]

IsLocated(w) == DOMAIN w = {"value", "pos"}
IsPathLocated(w) == DOMAIN w = {"value", "pos", "path"}

\* a plausible slip: the mapped wrapper gets a default position
LocatedMapDefaultPos(w, fn) == [value |-> fn[w.value], pos |-> PositionDefault]

\* Located::map(self, f)
LocatedMap(w, fn) == [value |-> fn[w.value], pos |-> w.pos]

\* Located::with_path(self, path)
LocatedWithPath(w, path) == [value |-> w.value, pos |-> w.pos, path |-> path]

\* PathLocated::map(self, f)
PathLocatedMap(w, fn) == [value |-> fn[w.value], pos |-> w.pos, path |-> w.path]

\* <Located<T> as PartialEq>::eq
LocatedEq(a, b) == a.value = b.value

\* a plausible slip: the derived comparison of every field
PathLocatedEqDerived(a, b) == a.value = b.value /\ a.pos = b.pos /\ a.path = b.path

\* <PathLocated<T> as PartialEq>::eq
PathLocatedEq(a, b) == a.value = b.value

\* <Position as Hash>::hash (derived): ln.start, ln.end, col.start, col.end
\* written to the hasher, whose state is the sequence of what was written
PositionHash(p, state) == state \o <<p.ln.start, p.ln.end, p.col.start, p.col.end>>

\* a plausible slip: the hash made to agree with eq, the value alone
LocatedHashValueOnly(w, state) == state \o <<w.value>>

\* <Located<T> as Hash>::hash
LocatedHash(w, state) == PositionHash(w.pos, state \o <<w.value>>)

\* <PathLocated<T> as Hash>::hash
PathLocatedHash(w, state) == PositionHash(w.pos, state \o <<w.value>>) \o <<w.path>>

InitLocated ==
    /\ x = LocatedDefault
    /\ y = LocatedDefault
    /\ out = [op |-> "none"]
    /\ self = PositionDefault
    /\ other = PositionDefault /\ pre = PositionDefault /\ arg = PositionDefault
    /\ box = PositionDefault /\ count = 0
    /\ content = <<>> /\ f = <<>> /\ fPre = <<>> /\ ret = "none" /\ pc = "ready"

Frame == UNCHANGED <<self, extendVars, displayVars>>

\* x = Located::new(v, p) or y = Located::new(v, p)
NewLocated(slot, v, p) ==
    /\ IF slot = 1 THEN x' = LocatedNew(v, p) /\ y' = y
                   ELSE y' = LocatedNew(v, p) /\ x' = x
    /\ out' = [op |-> "none"]
    /\ Frame

\* x = PathLocated::new(v, p, path) or y = PathLocated::new(v, p, path)
NewPathLocated(slot, v, p, path) ==
    /\ IF slot = 1 THEN x' = PathLocatedNew(v, p, path) /\ y' = y
                   ELSE y' = PathLocatedNew(v, p, path) /\ x' = x
    /\ out' = [op |-> "none"]
    /\ Frame

\* x == y on two Located
EqLocated ==
    /\ IsLocated(x) /\ IsLocated(y)
    /\ out' = [op |-> "eq", res |-> LocatedEq(x, y)]
    /\ UNCHANGED <<x, y>> /\ Frame

\* x == y on two PathLocated
EqPathLocated ==
    /\ IsPathLocated(x) /\ IsPathLocated(y)
    /\ out' = [op |-> "eq", res |-> PathLocatedEq(x, y)]
    /\ UNCHANGED <<x, y>> /\ Frame

\* x.hash(&mut hx); y.hash(&mut hy) on two Located, each into a new hasher
HashLocated ==
    /\ IsLocated(x) /\ IsLocated(y)
    /\ out' = [op |-> "hash", hx |-> LocatedHash(x, <<>>), hy |-> LocatedHash(y, <<>>)]
    /\ UNCHANGED <<x, y>> /\ Frame

\* x.hash(&mut hx); y.hash(&mut hy) on two PathLocated, each into a new hasher
HashPathLocated ==
    /\ IsPathLocated(x) /\ IsPathLocated(y)
    /\ out' = [op |-> "hash", hx |-> PathLocatedHash(x, <<>>), hy |-> PathLocatedHash(y, <<>>)]
    /\ UNCHANGED <<x, y>> /\ Frame

\* x.clone().map(fn) on a Located
MapLocated(fn) ==
    /\ IsLocated(x)
    /\ out' = [op |-> "map", arg |-> x, fn |-> fn, res |-> LocatedMap(x, fn)]
    /\ UNCHANGED <<x, y>> /\ Frame

\* x.clone().map(fn) on a PathLocated
MapPathLocated(fn) ==
    /\ IsPathLocated(x)
    /\ out' = [op |-> "map", arg |-> x, fn |-> fn, res |-> PathLocatedMap(x, fn)]
    /\ UNCHANGED <<x, y>> /\ Frame

\* x.clone().with_path(path) on a Located
WithPath(path) ==
    /\ IsLocated(x)
    /\ out' = [op |-> "with_path", arg |-> x, path |-> path, res |-> LocatedWithPath(x, path)]
    /\ UNCHANGED <<x, y>> /\ Frame

NextLocated ==
    \/ \E slot \in 1..2, v \in Values, p \in WrapPositions : NewLocated(slot, v, p)
    \/ \E slot \in 1..2, v \in Values, p \in WrapPositions, path \in Paths :
           NewPathLocated(slot, v, p, path)
    \/ EqLocated
    \/ EqPathLocated
    \/ HashLocated
    \/ HashPathLocated
    \/ \E fn \in Fns : MapLocated(fn)
    \/ \E fn \in Fns : MapPathLocated(fn)
    \/ \E path \in Paths : WithPath(path)

SpecLocated == InitLocated /\ [][NextLocated]_vars

(***************************************************************************)
(* Properties of Position::extend (under SpecExtend)                       *)
(***************************************************************************)
Extended == count > 0

\* C1: after a.extend(&b) each bound of a is the minimum (starts) or the
\* maximum (ends) of that same bound of a before the call and of b, and b
\* is as it was passed.
C1_ExtendIsMinMax ==
    Extended =>
        /\ self.ln.start = Min(pre.ln.start, arg.ln.start)
        /\ self.ln.end = Max(pre.ln.end, arg.ln.end)
        /\ self.col.start = Min(pre.col.start, arg.col.start)
        /\ self.col.end = Max(pre.col.end, arg.col.end)
        /\ other = arg

\* an extend that lowered the line start, raised the line end and left the
\* columns alone although b's columns differ
C1_Witness ==
    /\ Extended
    /\ self.ln.start < pre.ln.start
    /\ self.ln.end > pre.ln.end
    /\ self.col = pre.col
    /\ arg.col # pre.col

Contained(c, p) ==
    /\ p.ln.start <= c.ln.start /\ c.ln.end <= p.ln.end
    /\ p.col.start <= c.col.start /\ c.col.end <= p.col.end

\* C10: after any sequence of extends p is the bounding box of the original
\* p and every argument; the last step raised no start and lowered no end;
\* extending by a Position contained in p changes nothing, and the last
\* argument is contained in p; applying the last argument and any other
\* Position in the other order gives the same p.
C10_ExtendSequence ==
    /\ self = box
    /\ self.ln.start <= pre.ln.start /\ self.ln.end >= pre.ln.end
    /\ self.col.start <= pre.col.start /\ self.col.end >= pre.col.end
    /\ Extended => Contained(arg, self) /\ PositionExtend(self, arg).self = self
    /\ \A c \in ExtendPositions :
           /\ Contained(c, self) => PositionExtend(self, c).self = self
           /\ Extended =>
                  PositionExtend(PositionExtend(pre, c).self, arg).self = PositionExtend(self, c).self

\* a second or later extend that changed p, after earlier ones had
C10_Witness ==
    /\ count = 2
    /\ self # pre
    /\ ~Contained(arg, pre)
    /\ self.ln.start < arg.ln.start
    /\ self.col.end > arg.col.end

(***************************************************************************)
(* Properties of Position::display (under SpecDisplay)                     *)
(***************************************************************************)
Displayed == pc = "done"
AllLines == Lines(content)

\* the inclusive line range selects at least one existing line
Resolves == self.ln.start <= self.ln.end /\ self.ln.end < Len(AllLines)

\* the lines the range selects, when it resolves
Selected == SubSeq(AllLines, self.ln.start + 1, self.ln.end + 1)

\* f still starts with what it held before the call
KeepsPrefix == Len(f) >= Len(fPre) /\ SubSeq(f, 1, Len(fPre)) = fPre
Appended == SubSeq(f, Len(fPre) + 1, Len(f))

\* the rows of a text in which every row ends with a newline
Rows(t) == LET ps == SplitInclusive(t) IN [k \in 1..Len(ps) |-> SubSeq(ps[k], 1, Len(ps[k]) - 1)]
EveryRowEnds(t) == t = <<>> \/ t[Len(t)] = LF

SixSpaces == <<" ", " ", " ", " ", " ", " ">>

\* markers by character index k (from 0)
MarkersBetween(line, lo, hi) == [k \in 1..Len(line) |-> IF lo <= k - 1 /\ k - 1 < hi THEN "~" ELSE " "]
MarkersFrom(line, lo) == [k \in 1..Len(line) |-> IF lo <= k - 1 THEN "~" ELSE " "]
MarkersBefore(line, hi) == [k \in 1..Len(line) |-> IF k - 1 < hi THEN "~" ELSE " "]

\* C2: display returns Ok, and what it appended is exactly the fallback line
\* if and only if the line range does not select an existing line.
C2_FallbackIffUnresolved ==
    Displayed =>
        /\ ret = "Ok"
        /\ KeepsPrefix
        /\ (Appended = Fallback \o <<LF>>) <=> ~Resolves

\* a fallback for a range ending one past the last line of a non-empty text
C2_Witness ==
    /\ Displayed
    /\ AllLines # <<>>
    /\ self.ln.start <= self.ln.end
    /\ self.ln.end = Len(AllLines)
    /\ Appended = Fallback \o <<LF>>

\* C3: for a single selected line the output is the header row and an
\* underline row with one marker per character, '~' exactly at the character
\* indices in [col.start, col.end).
C3_SingleLineByCharIndex ==
    (Displayed /\ Resolves /\ self.ln.start = self.ln.end) =>
        LET line == Selected[1]
        IN  /\ KeepsPrefix
            /\ Appended = PadLeft(Digits(self.ln.start + 1), 4) \o <<"|", " ">> \o line \o <<LF>>
                          \o SixSpaces \o MarkersBetween(line, self.col.start, self.col.end) \o <<LF>>

\* C4: for several selected lines, every line has its header row directly
\* followed by its underline row, in source order; the first underline row
\* marks the character indices >= col.start, the last those < col.end.
C4_EdgeRowsByCharIndex ==
    (Displayed /\ Resolves /\ self.ln.start < self.ln.end) =>
        LET n == Len(Selected)
            rows == Rows(Appended)
        IN  /\ KeepsPrefix /\ EveryRowEnds(Appended)
            /\ Len(rows) = 2 * n
            /\ \A i \in 1..n :
                   LET h == rows[2 * i - 1]
                       t == <<"|", " ">> \o Selected[i]
                   IN  Len(h) >= Len(t) /\ SubSeq(h, Len(h) - Len(t) + 1, Len(h)) = t
            /\ rows[2] = SixSpaces \o MarkersFrom(Selected[1], self.col.start)
            /\ rows[2 * n] = SixSpaces \o MarkersBefore(Selected[n], self.col.end)

\* C8: the underline row of every line strictly between the first and the
\* last selected line is 6 spaces and then one '~' per character of the line.
C8_InteriorRowsByCharCount ==
    (Displayed /\ Resolves /\ self.ln.start < self.ln.end) =>
        LET n == Len(Selected)
            rows == Rows(Appended)
        IN  /\ Len(rows) = 2 * n
            /\ \A i \in 2..(n - 1) : rows[2 * i] = SixSpaces \o Repeat("~", Len(Selected[i]))

\* C9: for several selected lines the header row of the i-th one (i from 0)
\* shows i + 1 right-aligned in width 4, whatever ln.start is.
C9_LocalLineNumbers ==
    (Displayed /\ Resolves /\ self.ln.start < self.ln.end) =>
        LET n == Len(Selected)
            rows == Rows(Appended)
        IN  /\ Len(rows) = 2 * n
            /\ \A i \in 1..n :
                   rows[2 * i - 1] = PadLeft(Digits(i), 4) \o <<"|", " ">> \o Selected[i]

\* several lines displayed that do not start at the first line of the text
C9_Witness ==
    /\ Displayed /\ Resolves
    /\ self.ln.start > 0
    /\ self.ln.start < self.ln.end
    /\ Rows(Appended)[1] = <<" ", " ", " ", "1", "|", " ">> \o Selected[1]

(***************************************************************************)
(* Properties of Located<T> and PathLocated<T> (under SpecLocated)         *)
(***************************************************************************)
\* C5: x == y on two Located or two PathLocated holds if and only if the
\* inner values are equal.
C5_EqIsValueOnly ==
    out.op = "eq" => (out.res <=> x.value = y.value)

\* two PathLocated found equal that differ in position and in path
C5_Witness ==
    /\ out.op = "eq" /\ out.res
    /\ IsPathLocated(x) /\ IsPathLocated(y)
    /\ x.pos # y.pos /\ x.path # y.path

\* C6: what is written to the hasher is the value, then the four bounds of
\* the position, then (PathLocated) the path; two wrappers write the same
\* data only if value, position and path all agree.
C6_HashIncludesLocation ==
    out.op = "hash" =>
        /\ Len(out.hx) = IF IsPathLocated(x) THEN 6 ELSE 5
        /\ out.hx[1] = x.value
        /\ SubSeq(out.hx, 2, 5) = <<x.pos.ln.start, x.pos.ln.end, x.pos.col.start, x.pos.col.end>>
        /\ IsPathLocated(x) => out.hx[6] = x.path
        /\ out.hx = out.hy => x = y

\* two equal Located at different positions, hashed to different data
C6_Witness ==
    /\ out.op = "hash"
    /\ IsLocated(x) /\ IsLocated(y)
    /\ LocatedEq(x, y)
    /\ x.pos # y.pos
    /\ out.hx # out.hy

\* C7: map yields a wrapper with the function's value and the argument's
\* position (and path); with_path yields the argument's value and position
\* and the given path.
C7_TransformFrame ==
    /\ out.op = "map" =>
           /\ out.res.value = out.fn[out.arg.value]
           /\ out.res.pos = out.arg.pos
           /\ DOMAIN out.res = DOMAIN out.arg
           /\ IsPathLocated(out.arg) => out.res.path = out.arg.path
    /\ out.op = "with_path" =>
           /\ out.res.value = out.arg.value
           /\ out.res.pos = out.arg.pos
           /\ out.res.path = out.path

\* a Located at a non-default position mapped by a function that changes
\* its value
C7_Witness ==
    /\ out.op = "map"
    /\ IsLocated(out.arg)
    /\ out.arg.pos # PositionDefault
    /\ out.res.value # out.arg.value

====
